---- MODULE Spec2Model ----
(***************************************************************************)
(* Orbit choreography engine of 3D-tidig.                                  *)
(*                                                                         *)
(*  - move variant  : second Orbit class of src/js/main.js (lines 829-1149)*)
(*  - clone variant : Orbit class of src/unnamed/part_001 (lines 65-334)   *)
(*                                                                         *)
(* Angles are integers in units of 2*pi/TwoPi, lengths in hundredths of a  *)
(* scene unit, opacities in hundredths, times in milliseconds.             *)
(***************************************************************************)
EXTENDS Integers, Sequences, FiniteSets, TLC

\* ---------------------------------------------------------------- bounds
NumEnts == 2      \* cards added to the move-variant orbit by main()
FrameMs == 400    \* milliseconds between two frames of the move variant
MaxCalls == 3     \* setFocus calls in one run of the move variant
MaxFrames == 7    \* frames rendered in one run of the move variant
NumCards == 2     \* cards added to the clone-variant orbit by main()
MaxCCalls == 3    \* setFocus / cycleFocus calls in one run of the clone variant
CallWindow == 3   \* the calls of the clone variant come within this many frames
MaxPickCalls == 2 \* setFocus calls in one run with clicks
MaxPickFrames == 4 \* frames rendered in one run with clicks
MaxPageCalls == 3  \* Swiper and exit-cross events in one run of the whole page
MaxPageFrames == 7 \* frames rendered in one run of the whole page
MaxAdds == 4      \* cards added while a ring is built
MaxECalls == 5    \* cycleFocus calls in one run of src/main.js
MaxEFrames == 2   \* frames rendered in one run of src/main.js
MaxReAdds == 3    \* calls of add on a ring that is already built
MaxAngle == 1     \* those calls draw their angle from 0..MaxAngle
MaxV1Calls == 2   \* setFocus calls in one run of the first Orbit class
MaxV1Frames == 11 \* frames rendered in one run of the first Orbit class
MaxShrinks == 2   \* shrink steps after which a probe ray misses the entity, at most
MaxSpeed == 2     \* CardMesh: the max_speed argument is drawn from 0..MaxSpeed
MaxDev == 2       \* CardMesh: allowed_deviation is drawn from 0..MaxDev
MaxAcc == 1       \* CardMesh: acceleration is drawn from -MaxAcc..MaxAcc
MaxUpdates == 6   \* CardMesh.update calls in one run

\* ------------------------------------------------------------- constants
NULL           == 0       \* null / no entity
MsPerTurn      == 62832   \* main ring period: 2*Math.PI / (0.1 rad/s), in ms
radius         == 650     \* new Orbit(camera, 6.5, sphere)
animation_time == 1200    \* constructor default of the second Orbit class
FadeTime       == 300     \* duration of both overlay fades
DriftTime      == 5000    \* the shortest period CardMesh picks for its drift
FadeTarget     == 60      \* overlay opacity 0.6
CTwoPi         == 48      \* clone variant: 2*Math.PI in angle units of 7.5 degrees
BringTime      == 3000    \* _bringToFront(entity, time = 3000)
TransportTime  == 2000    \* _focusToTransport(time = 2000)
DockTime       == 3000    \* _tryDock(obj, docking_range = 6, time = 3000)
V1BringTime    == 3000    \* first Orbit class: _bringToFront(entity, time = 3000)
V1ExitTime     == 2000    \* first Orbit class: _focusedToOrbit(time = 2000)
V1FadeTime     == 600     \* first Orbit class: duration of both overlay fades
V1HighlightLag == 100     \* first Orbit class: addHighlight is delayed by time + 100
ScaleTime      == 75      \* duration of one shrink tween of _scale
FullScale      == 1000    \* entity.scale before the scale pass, in thousandths
NumProbes      == 4       \* the probe positions of _scale
docking_range  == 60000   \* 6 squared scene units, in squared hundredths

\* 2*Math.PI in the angle unit of the move variant: what the main ring
\* turns in one frame (rotation = time * 0.1)
TwoPi == MsPerTurn \div FrameMs

Ents  == 1..NumEnts
BadId == NumEnts + 1      \* an identifier that no entity carries
Ids   == Ents \cup {NULL, BadId}

\* ------------------------------------------------------ generic helpers
Norm(a) == a % TwoPi

\* Math.atan2(x, z) of a point at angle a: the angle in (-pi, pi]
Signed(a) == IF Norm(a) > TwoPi \div 2 THEN Norm(a) - TwoPi ELSE Norm(a)

Min(a, b) == IF a < b THEN a ELSE b

ISqrt(n) == CHOOSE k \in 0..100 : k * k <= n /\ n < (k + 1) * (k + 1)

\* a removal that leaves the object among the children of its old parent
Remove_Nothing(seq, x) == seq

\* Object3D.remove: the children without x
Remove(seq, x) == SelectSeq(seq, LAMBDA y : y # x)

Contains(seq, x) == \E i \in DOMAIN seq : seq[i] = x

\* Object3D.attach / add: drop the old parent, append to the new children
AttachTo(seq, x) == Append(Remove(seq, x), x)

PiOver4  == TwoPi \div 8
PiOver12 == (TwoPi + 12) \div 24
PiOver14 == (TwoPi + 14) \div 28

\* focus_dist_mult = 1.3
MulFocus(r) == (r * 13) \div 10
DivFocus(r) == (r * 10) \div 13

\* TWEEN easings at progress el/dur, in hundredths
Progress(el, dur) == (Min(el, dur) * 100) \div dur
EaseLinear(el, dur)  == Progress(el, dur)
EaseQuadIn(el, dur)  == (Progress(el, dur) * Progress(el, dur)) \div 100
EaseCircOut(el, dur) == ISqrt(10000 - (100 - Progress(el, dur)) * (100 - Progress(el, dur)))
Lerp(from, to, e100) == from + ((to - from) * e100) \div 100

VARIABLES
  orbit,      \* move variant: the Orbit object and its scene graph
  tweens,     \* move variant: TWEEN's live tweens, in id order
  ui,         \* move variant: the page around the canvas (menu, info block)
  corbit,     \* clone variant: the Orbit object and its scene graph
  ctweens,    \* clone variant: TWEEN's live tweens, in id order
  timers,     \* clone variant: pending setTimeout(onFinish) calls
  clock,      \* clone variant: frames rendered so far, up to CallWindow
  call,       \* the last handler that ran and the path it took
  ncalls      \* number of setFocus / cycleFocus calls made so far

vars  == <<orbit, tweens, ui, corbit, ctweens, timers, clock, call, ncalls>>
mvars == <<orbit, tweens, ui>>
cvars == <<corbit, ctweens, timers, clock>>

\* ===================================================== move variant =====
\* the page as main() leaves it: splash shown, menu hidden, Swiper created
\* with enabled: false and its first slide active, info block and exit cross hidden
NewPage == [explored |-> FALSE, info_block |-> 0, nav_menu |-> 0, swiper |-> FALSE,
            exit_cross |-> FALSE, slide |-> 1]

\* Orbit.add (redistribute_all = true)
SlotAngle(n, i) == Norm(i * (TwoPi \div n))

OrbitAdd(o, e, angle) ==
  LET n == Len(o.main_orbit) + 1
      moved == [x \in Ents |->
                 IF \E i \in DOMAIN o.main_orbit : o.main_orbit[i] = x
                 THEN LET i == CHOOSE j \in DOMAIN o.main_orbit : o.main_orbit[j] = x
                      IN [ang |-> Norm(angle + SlotAngle(n, i)), rad |-> radius]
                 ELSE o.pos[x]]
  IN [o EXCEPT !.pos = [moved EXCEPT ![e] = [ang |-> Norm(angle), rad |-> radius]],
               !.main_orbit = AttachTo(o.main_orbit, e),
               !.focus_orbit = Remove(o.focus_orbit, e),
               !.system = Remove(o.system, e)]

RECURSIVE AddAll(_, _)
AddAll(o, n) == IF n = 0 THEN o ELSE OrbitAdd(AddAll(o, n - 1), n, 0)

\* CardMesh: the drift of one card. init is tween_init playing, yoyo the chained
\* repeating tween playing, el the time the playing one has run, bound the sign
\* of this.bound
NewDrift == [init |-> TRUE, yoyo |-> FALSE, el |-> 0, bound |-> 1]

\* tween_init.stop(); tween.stop()
DriftStop(d) == [d EXCEPT !.init = FALSE, !.yoyo = FALSE, !.el = 0]

\* tween_init.start(), which does nothing while tween_init is playing
DriftStart(d) == IF d.init THEN d ELSE [d EXCEPT !.init = TRUE, !.el = 0]

\* one TWEEN.update() of the drift tweens of a card: tween_init starts the chained
\* tween when it completes; the chained tween runs onRepeat at the end of a period
DriftUpdate(d) ==
  IF d.init
  THEN IF d.el + FrameMs >= DriftTime \div 2
       THEN [d EXCEPT !.init = FALSE, !.yoyo = TRUE, !.el = 0]
       ELSE [d EXCEPT !.el = @ + FrameMs]
  ELSE IF d.yoyo
       THEN IF d.el + FrameMs >= DriftTime
            THEN [d EXCEPT !.el = 0, !.bound = 0 - @]
            ELSE [d EXCEPT !.el = @ + FrameMs]
       ELSE d

\* constructor
NewOrbit ==
  [focused     |-> NULL,
   main_orbit  |-> << >>,
   focus_orbit |-> << >>,
   system      |-> << >>,
   rot         |-> 0,
   phi         |-> 0,
   opacity     |-> 0,
   pos         |-> [e \in Ents |-> [ang |-> 0, rad |-> 0]],
   deco        |-> [e \in Ents |-> 0],
   drift       |-> [e \in Ents |-> NewDrift]]

\* a tween: from and to are the start and end values; the exit tween moves a point,
\* whose start is (sa, from) and whose end is (to, aux) as (angle, radius)
Tw(kind, ent, on, from, to, aux) ==
  [kind |-> kind, ent |-> ent, el |-> 0, on |-> on, from |-> from, to |-> to, aux |-> aux,
   sa |-> 0]

Dur(t) == IF t.kind \in {"fadein", "fadeout"} THEN FadeTime ELSE animation_time

IsPlaying(tw, kind) == \E i \in DOMAIN tw : tw[i].kind = kind /\ tw[i].on

\* Object3D.clear() on entity e: the highlight and the button are removed
Clear(o, e) == [o EXCEPT !.deco[e] = 0]

\* a fade-in that is started at once
FadeTween_Started(e) == Tw("fadein", e, TRUE, 0, FadeTarget, 0)

\* fade_tween of _bringToFront: created, not started, chained to the entity rotation
FadeTween(e) == Tw("fadein", e, FALSE, 0, FadeTarget, 0)

\* _bringToFront that leaves the drift of the entity running
BringToFront_KeepDrift(s, e) ==
  LET o     == s.o
      local == Norm(o.pos[e].ang + o.rot - o.phi)
      angle == 0 - Signed(local)
      o1 == [o EXCEPT !.focused = e,
                      !.main_orbit = Remove(o.main_orbit, e),
                      !.focus_orbit = AttachTo(o.focus_orbit, e),
                      !.pos[e] = [ang |-> local, rad |-> o.pos[e].rad]]
      tw1 == s.tw \o
             << FadeTween(e),
                Tw("forot", e, TRUE, o.phi, angle + PiOver14, 0),
                Tw("entrot", e, TRUE, 0, 0 - angle - PiOver12, 0),
                Tw("entpos", e, TRUE, o.pos[e].rad, MulFocus(o.pos[e].rad), 0) >>
  IN [o |-> o1, tw |-> tw1]

\* Orbit._bringToFront(entity) on the pair s = [o |-> orbit, tw |-> tweens]
BringToFront(s, e) ==
  LET o     == s.o
      local == Norm(o.pos[e].ang + o.rot - o.phi)
      angle == 0 - Signed(local)
      o1 == [o EXCEPT !.focused = e,
                      !.main_orbit = Remove(o.main_orbit, e),
                      !.focus_orbit = AttachTo(o.focus_orbit, e),
                      !.pos[e] = [ang |-> local, rad |-> o.pos[e].rad],
                      !.drift[e] = DriftStop(@)]
      tw1 == s.tw \o
             << FadeTween(e),
                Tw("forot", e, TRUE, o.phi, angle + PiOver14, 0),
                Tw("entrot", e, TRUE, 0, 0 - angle - PiOver12, 0),
                Tw("entpos", e, TRUE, o.pos[e].rad, MulFocus(o.pos[e].rad), 0) >>
  IN [o |-> o1, tw |-> tw1]

\* _focusedToOrbit that leaves the in-flight entry animations running
FocusedToOrbit_NoStop(s) ==
  LET o == s.o
      e == o.focused
      sysAng == Norm(o.pos[e].ang + o.phi)
      o1 == [Clear(o, e) EXCEPT
                      !.focus_orbit = Remove(o.focus_orbit, e),
                      !.system = AttachTo(o.system, e),
                      !.pos[e] = [ang |-> sysAng, rad |-> o.pos[e].rad],
                      !.focused = NULL,
                      !.phi = 0]
      tw1 == s.tw \o << Tw("fadeout", e, TRUE, o.opacity, 0, 0),
                        [Tw("ret", e, TRUE, o.pos[e].rad, PiOver4, radius)
                           EXCEPT !.sa = sysAng] >>
  IN [o |-> o1, tw |-> tw1]

\* Orbit._focusedToOrbit() on the pair s
FocusedToOrbit(s) ==
  LET o == s.o
      e == o.focused
      sysAng == Norm(o.pos[e].ang + o.phi)
      playing == IsPlaying(s.tw, "entpos")
      target == IF playing
                THEN [ang |-> sysAng, rad |-> DivFocus(o.pos[e].rad)]
                ELSE [ang |-> PiOver4, rad |-> radius]
      o1 == [Clear(o, e) EXCEPT
                      !.focus_orbit = Remove(o.focus_orbit, e),
                      !.system = AttachTo(o.system, e),
                      !.pos[e] = [ang |-> sysAng, rad |-> o.pos[e].rad],
                      !.focused = NULL,
                      !.phi = 0]
      kept == IF playing
              THEN SelectSeq(s.tw, LAMBDA t : ~(t.kind \in {"entrot", "entpos"})
                                             /\ ~(t.kind = "fadein" /\ ~t.on))
              ELSE s.tw
      tw1 == kept \o << Tw("fadeout", e, TRUE, o.opacity, 0, 0),
                        [Tw("ret", e, TRUE, o.pos[e].rad, target.ang, target.rad)
                           EXCEPT !.sa = sysAng] >>
  IN [o |-> o1, tw |-> tw1]

\* Orbit.setFocus(id)
SetFocusPath(o, id) ==
  IF o.focused # NULL /\ id = o.focused THEN "abort"
  ELSE IF Contains(o.main_orbit, id)
       THEN (IF o.focused # NULL THEN "switch" ELSE "focus")
       ELSE (IF o.focused # NULL THEN "release" ELSE "ignore")

\* setFocus without the "already focused" test
OrbitSetFocus_NoAbort(s, id) ==
  LET s1 == IF s.o.focused # NULL THEN FocusedToOrbit(s) ELSE s
  IN IF Contains(s1.o.main_orbit, id) THEN BringToFront(s1, id) ELSE s1

OrbitSetFocus(s, id) ==
  IF s.o.focused # NULL /\ id = s.o.focused
  THEN s
  ELSE LET s1 == IF s.o.focused # NULL THEN FocusedToOrbit(s) ELSE s
       IN IF Contains(s1.o.main_orbit, id) THEN BringToFront(s1, id) ELSE s1

SetFocus(id) ==
  LET s == OrbitSetFocus([o |-> orbit, tw |-> tweens], id)
  IN /\ ncalls < MaxCalls
     /\ ncalls' = ncalls + 1
     /\ orbit' = s.o
     /\ tweens' = s.tw
     /\ UNCHANGED <<ui, cvars>>
     /\ call' = [op |-> "setFocus", id |-> id, prev |-> orbit.focused,
                 path |-> SetFocusPath(orbit, id),
                 playing |-> IsPlaying(tweens, "entpos"), err |-> FALSE, parent |-> NULL]

\* One tween of TWEEN.update(): s.tw is the list of tweens that stay alive
UpdateTween(s, t) ==
  LET el  == t.el + FrameMs
      fin == el >= Dur(t)
      t1  == [t EXCEPT !.el = el]
      o   == s.o
      keep(o2) == [o |-> o2, tw |-> IF fin THEN s.tw ELSE Append(s.tw, t1)]
  IN IF ~t.on THEN [o |-> o, tw |-> Append(s.tw, t)]
     ELSE CASE t.kind = "forot" ->
                 keep([o EXCEPT !.phi = Lerp(t.from, t.to, EaseCircOut(el, Dur(t)))])
            [] t.kind = "entrot" ->
                 IF fin
                 THEN [o |-> o,
                       tw |-> [i \in DOMAIN s.tw |->
                                IF s.tw[i].kind = "fadein" /\ ~s.tw[i].on /\ s.tw[i].ent = t.ent
                                THEN [s.tw[i] EXCEPT !.on = TRUE, !.from = o.opacity]
                                ELSE s.tw[i]]]
                 ELSE keep(o)
            [] t.kind = "entpos" ->
                 LET o2 == [o EXCEPT !.pos[t.ent].rad = Lerp(t.from, t.to, EaseLinear(el, Dur(t)))]
                 IN IF fin
                    THEN keep([o2 EXCEPT !.deco[t.ent] = @ + 1])
                    ELSE keep(o2)
            [] t.kind \in {"fadein", "fadeout"} ->
                 keep([o EXCEPT !.opacity = Lerp(t.from, t.to, EaseQuadIn(el, Dur(t)))])
            [] t.kind = "ret" ->
                 IF fin
                 THEN keep([o EXCEPT !.system = Remove(o.system, t.ent),
                                     !.main_orbit = AttachTo(o.main_orbit, t.ent),
                                     !.pos[t.ent] = [ang |-> Norm(t.to - o.rot), rad |-> t.aux],
                                     !.drift[t.ent] = DriftStart(@)])
                 ELSE keep(o)

RECURSIVE TweenUpdate(_, _, _)
TweenUpdate(s, old, i) ==
  IF i > Len(old) THEN s ELSE TweenUpdate(UpdateTween(s, old[i]), old, i + 1)

\* render(time): TWEEN.update() followed by orbit.update(time * 0.1)
Frame ==
    LET o0 == [orbit EXCEPT !.drift = [e \in Ents |-> DriftUpdate(orbit.drift[e])]]
        s == TweenUpdate([o |-> o0, tw |-> << >>], tweens, 1)
    IN /\ orbit.rot < MaxFrames
       /\ orbit' = [s.o EXCEPT !.rot = Norm(orbit.rot + 1)]
       /\ tweens' = s.tw
       /\ UNCHANGED <<ui, ncalls, cvars>>
       /\ call' = [op |-> "frame", id |-> NULL, prev |-> orbit.focused,
                   path |-> "frame", playing |-> IsPlaying(tweens, "entpos"), err |-> FALSE, parent |-> NULL]

InitMove ==
  /\ orbit = AddAll(NewOrbit, NumEnts)
  /\ tweens = << >>
  /\ ui = NewPage
  /\ corbit = NULL /\ ctweens = << >> /\ timers = << >> /\ clock = 0
  /\ ncalls = 0
  /\ call = [op |-> "init", id |-> NULL, prev |-> NULL, path |-> "init", playing |-> FALSE,
             err |-> FALSE, parent |-> NULL]

NextMove == (\E id \in Ids : SetFocus(id)) \/ Frame

SpecMove == InitMove /\ [][NextMove]_vars

\* the page has been idle for a while when the first call comes: every card is
\* either at the start of its drift or about to end a period of the repeating tween
DriftPhases == {NewDrift, [init |-> FALSE, yoyo |-> TRUE, el |-> DriftTime - FrameMs, bound |-> 1]}

InitDrift ==
  /\ \E ph \in [Ents -> DriftPhases] : orbit = [AddAll(NewOrbit, NumEnts) EXCEPT !.drift = ph]
  /\ tweens = << >>
  /\ ui = NewPage
  /\ corbit = NULL /\ ctweens = << >> /\ timers = << >> /\ clock = 0
  /\ ncalls = 0
  /\ call = [op |-> "init", id |-> NULL, prev |-> NULL, path |-> "init", playing |-> FALSE,
             err |-> FALSE, parent |-> NULL]

SpecDrift == InitDrift /\ [][NextMove]_vars

\* ------------------------------------------- move variant: click bridge
\* what PickHelper.pick can return: undefined when the ray intersects
\* nothing, else the closest object; BadId stands for the identifier of any
\* object that is no entity (sphere, mask, ring group, highlight, button)
PickMiss == [hit |-> FALSE, id |-> NULL, parent |-> NULL]

Picks(o) ==
  {PickMiss}
    \cup {[hit |-> TRUE, id |-> e, parent |-> BadId] : e \in Ents}
    \cup {[hit |-> TRUE, id |-> BadId, parent |-> e] : e \in {x \in Ents : o.deco[x] > 0}}
    \cup {[hit |-> TRUE, id |-> BadId, parent |-> BadId]}

\* enterDetailMode(): orbit.focused.clear(), info block shown, menu hidden
EnterDetailMode(o, u) ==
  [o |-> Clear(o, o.focused),
   u |-> [u EXCEPT !.info_block = 1, !.nav_menu = 0, !.swiper = FALSE]]

HandleClickPath(o, p) ==
  IF o.focused = NULL THEN "unfocused"
  ELSE IF ~p.hit THEN "throw"
  ELSE IF p.id = o.focused \/ p.parent = o.focused THEN "detail"
  ELSE "ignore"

\* handleClick that opens the detail view for any picked entity
OrbitHandleClick_AnyEntity(o, u, p) ==
  IF o.focused # NULL /\ p.hit /\ (p.id \in Ents \/ p.parent \in Ents)
  THEN EnterDetailMode(o, u)
  ELSE [o |-> o, u |-> u]

\* handleClick(event), bound to the orbit, with p the result of the pick
OrbitHandleClick(o, u, p) ==
  IF HandleClickPath(o, p) = "detail" THEN EnterDetailMode(o, u) ELSE [o |-> o, u |-> u]

HandleClick(p) ==
  LET r == OrbitHandleClick(orbit, ui, p)
  IN /\ orbit' = r.o /\ ui' = r.u
     /\ call' = [op |-> "click", id |-> p.id, prev |-> orbit.focused,
                 path |-> IF p.hit THEN "hit" ELSE "miss",
                 playing |-> IsPlaying(tweens, "entpos"),
                 err |-> HandleClickPath(orbit, p) = "throw", parent |-> p.parent]
     /\ UNCHANGED <<tweens, ncalls, cvars>>

\* enterExplorationMode(), the once-only click on the splash screen; its
\* camera tweens move nothing that the orbit reads
EnterExplorationMode ==
  /\ ~ui.explored
  /\ ui' = [ui EXCEPT !.explored = TRUE, !.nav_menu = 1, !.swiper = TRUE]
  /\ call' = [op |-> "explore", id |-> NULL, prev |-> orbit.focused, path |-> "explore",
              playing |-> IsPlaying(tweens, "entpos"), err |-> FALSE, parent |-> NULL]
  /\ UNCHANGED <<orbit, tweens, ncalls, cvars>>

NextPick ==
  \/ \E id \in Ids : ncalls < MaxPickCalls /\ SetFocus(id)
  \/ orbit.rot < MaxPickFrames /\ Frame
  \/ \E p \in Picks(orbit) : HandleClick(p)
  \/ EnterExplorationMode

SpecPick == InitMove /\ [][NextPick]_vars

\* ------------------------------------------- move variant: the whole page
\* the only callers of orbit.setFocus on the page are the Swiper event and the
\* exit cross; the Swiper fires only while enabled and only for a slide other
\* than the active one, the exit cross is clicked only while visible, the
\* return button of the info block only while the info block is shown

\* swiper.on('slideChangeTransitionEnd'): orbit.setFocus(id), exit cross shown
SlideChange(id) ==
  LET s == OrbitSetFocus([o |-> orbit, tw |-> tweens], id)
  IN /\ ui.swiper /\ id # ui.slide
     /\ ncalls < MaxPageCalls
     /\ ncalls' = ncalls + 1
     /\ orbit' = s.o
     /\ tweens' = s.tw
     /\ ui' = [ui EXCEPT !.slide = id, !.exit_cross = TRUE]
     /\ call' = [op |-> "slide", id |-> id, prev |-> orbit.focused,
                 path |-> SetFocusPath(orbit, id),
                 playing |-> IsPlaying(tweens, "entpos"), err |-> FALSE, parent |-> NULL]
     /\ UNCHANGED cvars

\* exitFocusMode(): orbit.setFocus(null), exit cross hidden
ExitFocusMode ==
  LET s == OrbitSetFocus([o |-> orbit, tw |-> tweens], NULL)
  IN /\ ui.exit_cross
     /\ ncalls < MaxPageCalls
     /\ ncalls' = ncalls + 1
     /\ orbit' = s.o
     /\ tweens' = s.tw
     /\ ui' = [ui EXCEPT !.exit_cross = FALSE]
     /\ call' = [op |-> "exitFocus", id |-> NULL, prev |-> orbit.focused,
                 path |-> SetFocusPath(orbit, NULL),
                 playing |-> IsPlaying(tweens, "entpos"), err |-> FALSE, parent |-> NULL]
     /\ UNCHANGED cvars

\* Orbit.addHighlight(entity): two children added to the entity
AddHighlight(o, e) == [o EXCEPT !.deco[e] = @ + 1]

\* exitDetailMode(): with nothing focused addHighlight(null) throws at
\* entity.add, after the two opacities are written and before swiper.enable()
ExitDetailMode ==
  /\ ui.info_block = 1
  /\ IF orbit.focused = NULL
     THEN /\ orbit' = orbit
          /\ ui' = [ui EXCEPT !.info_block = 0, !.nav_menu = 1]
     ELSE /\ orbit' = AddHighlight(orbit, orbit.focused)
          /\ ui' = [ui EXCEPT !.info_block = 0, !.nav_menu = 1, !.swiper = TRUE]
  /\ call' = [op |-> "exitDetail", id |-> NULL, prev |-> orbit.focused, path |-> "exitDetail",
              playing |-> IsPlaying(tweens, "entpos"), err |-> orbit.focused = NULL,
              parent |-> NULL]
  /\ UNCHANGED <<tweens, ncalls, cvars>>

NextPage ==
  \/ \E id \in Ents : SlideChange(id)
  \/ ExitFocusMode
  \/ \E p \in Picks(orbit) : HandleClick(p)
  \/ EnterExplorationMode
  \/ ExitDetailMode
  \/ orbit.rot < MaxPageFrames /\ Frame

SpecPage == InitMove /\ [][NextPage]_vars


\* ==================================================== clone variant =====
\* time in which the main ring turns by one angle unit (rotation = time * 0.1)
CFrameMs == MsPerTurn \div CTwoPi

CEnts  == 1..NumCards
MaxObj == NumCards + MaxCCalls      \* every _bringToFront creates one object

CNorm(a) == a % CTwoPi

CSigned(a) == IF CNorm(a) > CTwoPi \div 2 THEN CNorm(a) - CTwoPi ELSE CNorm(a)

\* 10000 * cos(k * 7.5 degrees), k = 0..12
CosTab == << 10000, 9914, 9659, 9239, 8660, 7934, 7071, 6088, 5000, 3827, 2588, 1305, 0 >>

Cos10000(d) ==
  LET a == IF CSigned(d) < 0 THEN 0 - CSigned(d) ELSE CSigned(d)
  IN IF a <= CTwoPi \div 4 THEN CosTab[a + 1] ELSE 0 - CosTab[CTwoPi \div 2 - a + 1]

\* Vector3.distanceToSquared of two points given by angle and distance from the axis
DistanceToSquared(p, q) ==
  LET x == 2 * p.rad * q.rad
      c == Cos10000(p.ang - q.ang)
  IN p.rad * p.rad + q.rad * q.rad - ((x \div 10000) * c + ((x % 10000) * c) \div 10000)

\* trans_dist_mult = 1.2
MulTrans(r) == (r * 12) \div 10
FocusToTrans(r) == (r * 12) \div 13

\* roty is the object's own rotation.y
NoObj == [orig |-> NULL, ang |-> 0, rad |-> 0, vis |-> FALSE, freeze |-> FALSE, docks |-> 0,
          roty |-> 0]

\* constructor
NewCloneOrbit ==
  [clone           |-> NULL,
   hidden_ents     |-> << >>,
   main_orbit      |-> << >>,
   focus_orbit     |-> << >>,
   transport_orbit |-> << >>,
   rot             |-> 0,
   phi             |-> 0,
   nobj            |-> 0,
   objs            |-> [x \in 1..MaxObj |-> NoObj]]

\* Orbit.add with redistribute_all = false: the entities already on the ring stay put
COrbitAdd_NoRedistribute(o, e, angle) ==
  [o EXCEPT !.objs[e] = [orig |-> e, ang |-> CNorm(angle), rad |-> radius,
                         vis |-> TRUE, freeze |-> FALSE, docks |-> 0, roty |-> 0],
            !.main_orbit = Append(o.main_orbit, e),
            !.nobj = o.nobj + 1]

\* Orbit.add (redistribute_all = true) of the clone variant
COrbitAdd(o, e, angle) ==
  LET n == Len(o.main_orbit) + 1
      moved == [x \in 1..MaxObj |->
                 IF Contains(o.main_orbit, x)
                 THEN LET i == CHOOSE j \in DOMAIN o.main_orbit : o.main_orbit[j] = x
                      IN [o.objs[x] EXCEPT !.ang = CNorm(angle + i * (CTwoPi \div n)),
                                           !.rad = radius]
                 ELSE o.objs[x]]
  IN [o EXCEPT !.objs = [moved EXCEPT ![e] = [orig |-> e, ang |-> CNorm(angle), rad |-> radius,
                                              vis |-> TRUE, freeze |-> FALSE, docks |-> 0,
                                              roty |-> 0]],
               !.main_orbit = Append(o.main_orbit, e),
               !.nobj = o.nobj + 1]

RECURSIVE CAddAll(_, _)
CAddAll(o, n) == IF n = 0 THEN o ELSE COrbitAdd(CAddAll(o, n - 1), n, 0)

\* Object3D.getWorldPosition: the angle of x seen from the system
WorldAng(o, x) ==
  IF Contains(o.main_orbit, x) THEN CNorm(o.objs[x].ang + o.rot)
  ELSE IF Contains(o.transport_orbit, x) THEN CNorm(o.objs[x].ang + 3 * o.rot)
  ELSE IF Contains(o.focus_orbit, x) THEN CNorm(o.objs[x].ang + o.phi)
  ELSE o.objs[x].ang

\* Object3D.removeFromParent
Detach(o, x) ==
  [o EXCEPT !.main_orbit = Remove(@, x),
            !.focus_orbit = Remove(@, x),
            !.transport_orbit = Remove(@, x)]

CTw(kind, obj, dur, fa, fr, ta, tr) ==
  [kind |-> kind, obj |-> obj, el |-> 0, dur |-> dur, fa |-> fa, fr |-> fr, ta |-> ta, tr |-> tr]

\* Orbit._bringToFront(entity) on k = [o |-> corbit, tw |-> ctweens, tm |-> timers]
CBringToFront(k, e) ==
  LET o     == k.o
      id    == o.nobj + 1
      local == CNorm(WorldAng(o, e) - o.phi)
      angle == 0 - CSigned(local)
      rec   == [orig |-> e, ang |-> local, rad |-> o.objs[e].rad,
                vis |-> o.objs[e].vis, freeze |-> FALSE, docks |-> 0,
                roty |-> CNorm(o.objs[e].roty + o.rot - o.phi)]
      o1 == [o EXCEPT !.clone = id,
                      !.nobj = id,
                      !.focus_orbit = Append(@, id),
                      !.objs = [@ EXCEPT ![id] = rec, ![e].vis = FALSE],
                      !.hidden_ents = Append(@, e)]
      tw1 == k.tw \o
             << CTw("pos", id, (BringTime * 2) \div 3, local, rec.rad, local, MulFocus(rec.rad)),
                CTw("rot", id, BringTime, 0, CSigned(rec.roty), 0, 0 - angle),
                CTw("forot", NULL, BringTime, 0, o.phi, 0, angle) >>
  IN [k EXCEPT !.o = o1, !.tw = tw1]

\* Orbit._focusToTransport()
CFocusToTransport(k) ==
  LET o     == k.o
      x     == o.clone
      local == CNorm(WorldAng(o, x) - 3 * o.rot)
      d     == Detach(o, x)
      o1 == [d EXCEPT !.transport_orbit = Append(@, x),
                      !.objs[x].ang = local,
                      !.objs[x].roty = CNorm(0 - 3 * o.rot),
                      !.phi = 0]
      tw1 == Append(k.tw, CTw("pos", x, TransportTime, local, o.objs[x].rad,
                                  local, FocusToTrans(o.objs[x].rad)))
  IN [k EXCEPT !.o = o1, !.tw = tw1]

\* Orbit.setFocus(entity); with entity = null it ends in a TypeError
\* (this.focused is undefined) after the release of the focused clone
OrbitCSetFocus(k, entity) ==
  LET k1 == IF k.o.clone # NULL THEN CFocusToTransport(k) ELSE k
  IN IF entity # NULL THEN CBringToFront(k1, entity) ELSE k1

\* objects that nothing refers to any more
Garbage(k) ==
  {x \in 1..MaxObj :
     /\ x > NumCards /\ x <= k.o.nobj
     /\ ~Contains(k.o.main_orbit, x) /\ ~Contains(k.o.focus_orbit, x)
     /\ ~Contains(k.o.transport_orbit, x)
     /\ x # k.o.clone
     /\ ~Contains(k.o.hidden_ents, x)
     /\ \A i \in DOMAIN k.tm : k.tm[i].obj # x /\ k.tm[i].hidden # x}

Collect(k) ==
  LET g == Garbage(k)
  IN [k EXCEPT !.o.objs = [x \in 1..MaxObj |->
                             IF x \in g
                             THEN [NoObj EXCEPT !.orig = k.o.objs[x].orig,
                                                !.docks = k.o.objs[x].docks]
                             ELSE k.o.objs[x]],
               !.tw = SelectSeq(k.tw, LAMBDA t : ~(t.obj \in g))]

\* Quaternion.angleTo of two rotations about the y axis that differ by a
AngleTo(a) == IF CSigned(a) < 0 THEN 0 - CSigned(a) ELSE CSigned(a)

\* Object3D.getWorldQuaternion: the rotation of x about y seen from the system
WorldRot(o, x) ==
  IF Contains(o.main_orbit, x) THEN CNorm(o.objs[x].roty + o.rot)
  ELSE IF Contains(o.transport_orbit, x) THEN CNorm(o.objs[x].roty + 3 * o.rot)
  ELSE IF Contains(o.focus_orbit, x) THEN CNorm(o.objs[x].roty + o.phi)
  ELSE o.objs[x].roty

\* the docking branch of _tryDock: obj x docks into hidden_ents[i] = h
Dock(k, x, h, i) ==
  LET o     == k.o
      local == CNorm(WorldAng(o, x) - o.rot)
      d     == Detach(o, x)
      o1 == [d EXCEPT !.main_orbit = Append(@, x),
                      !.objs[x].freeze = TRUE,
                      !.objs[x].ang = local,
                      !.objs[x].roty = AngleTo(WorldRot(o, x)),
                      !.objs[x].docks = @ + 1,
                      !.hidden_ents = SubSeq(o.hidden_ents, 1, i - 1)
                                      \o SubSeq(o.hidden_ents, i + 1, Len(o.hidden_ents))]
  IN [k EXCEPT !.o = o1,
               !.tw = Append(@, CTw("pos", x, DockTime, local, o.objs[x].rad,
                                    o.objs[h].ang, o.objs[h].rad)),
               !.tm = Append(@, [obj |-> x, hidden |-> h, el |-> 0])]

InDockingRange(o, actual, h) ==
  DistanceToSquared(actual, [ang |-> WorldAng(o, h), rad |-> MulTrans(o.objs[h].rad)])
    <= docking_range

\* hidden_ents.forEach of _tryDock, from index i on; splice shifts the rest
RECURSIVE HiddenLoop(_, _, _, _)
HiddenLoop(k, x, actual, i) ==
  IF i > Len(k.o.hidden_ents) THEN k
  ELSE LET h == k.o.hidden_ents[i]
       IN IF InDockingRange(k.o, actual, h)
          THEN HiddenLoop(Dock(k, x, h, i), x, actual, i + 1)
          ELSE HiddenLoop(k, x, actual, i + 1)

\* Orbit._tryDock(obj)
TryDock(k, x) ==
  HiddenLoop(k, x, [ang |-> WorldAng(k.o, x), rad |-> k.o.objs[x].rad], 1)

\* transport_orbit.children.forEach of update, from index i on
RECURSIVE DockPass(_, _)
DockPass(k, i) ==
  IF i > Len(k.o.transport_orbit) THEN k
  ELSE DockPass(TryDock(k, k.o.transport_orbit[i]), i + 1)

\* Orbit._isDockRotDone of a frozen child, whose own rotation is -4 * rotation
IsDockRotDone(r) == CNorm(3 * r) % (CTwoPi \div 2) = 0

\* update(rotation, true) up to the docking pass: the ring rotations, then
\* main_orbit.children.forEach
UpdateRotations(k, r) ==
  LET o == k.o
  IN [k EXCEPT !.o.rot = r,
               !.o.objs = [x \in 1..MaxObj |->
                             IF ~Contains(o.main_orbit, x) THEN o.objs[x]
                             ELSE IF ~o.objs[x].freeze
                             THEN [o.objs[x] EXCEPT !.roty = CNorm(0 - r)]
                             ELSE [o.objs[x] EXCEPT !.roty = CNorm(0 - 4 * r),
                                                    !.freeze = ~IsDockRotDone(r)]]]

\* Orbit.update(rotation, true)
OrbitUpdate(k, r) == DockPass(UpdateRotations(k, r), 1)

\* one tween of TWEEN.update() in the clone variant. A position tween with a
\* fixed angle moves the distance linearly; the dock tween, which moves along
\* a chord, is at its start until it completes
CUpdateTween(k, t) ==
  LET el  == t.el + CFrameMs
      fin == el >= t.dur
      t1  == [t EXCEPT !.el = el]
      k1  == IF t.kind = "forot"
             THEN [k EXCEPT !.o.phi = Lerp(t.fr, t.tr, EaseLinear(el, t.dur))]
             ELSE IF t.kind = "rot"
             THEN [k EXCEPT !.o.objs[t.obj].roty = CNorm(Lerp(t.fr, t.tr, EaseLinear(el, t.dur)))]
             ELSE IF t.fa = t.ta
                  THEN [k EXCEPT !.o.objs[t.obj].ang = t.ta,
                                 !.o.objs[t.obj].rad = Lerp(t.fr, t.tr, EaseLinear(el, t.dur))]
                  ELSE IF fin
                       THEN [k EXCEPT !.o.objs[t.obj].ang = t.ta, !.o.objs[t.obj].rad = t.tr]
                       ELSE [k EXCEPT !.o.objs[t.obj].ang = t.fa, !.o.objs[t.obj].rad = t.fr]
  IN IF fin THEN k1 ELSE [k1 EXCEPT !.tw = Append(@, t1)]

RECURSIVE CTweenUpdate(_, _, _)
CTweenUpdate(k, old, i) ==
  IF i > Len(old) THEN k ELSE CTweenUpdate(CUpdateTween(k, old[i]), old, i + 1)

\* a timer that expires before the next frame
IsDue(t) == t.el + CFrameMs >= DockTime

\* the record written to call by the handlers of the clone variant;
\* prev is this.clone before the handler ran, err a TypeError thrown by it
CCall(op, id, path, err) ==
  [op |-> op, id |-> id, prev |-> corbit.clone, path |-> path, playing |-> FALSE, err |-> err,
   parent |-> NULL]

\* orbit.setFocus(entity), entity a card or null
CSetFocus(entity) ==
  LET k == Collect(OrbitCSetFocus([o |-> corbit, tw |-> ctweens, tm |-> timers], entity))
  IN /\ ncalls < MaxCCalls /\ clock < CallWindow
     /\ ncalls' = ncalls + 1 /\ clock' = clock
     /\ corbit' = k.o /\ ctweens' = k.tw /\ timers' = k.tm
     /\ call' = CCall("setFocus", entity, "setFocus", entity = NULL)
     /\ UNCHANGED mvars

\* Orbit.cycleFocus(backwards)
CCycleFocus(backwards) ==
  LET entities == corbit.main_orbit
      first    == corbit.clone = NULL /\ Len(entities) > 0
      throws   == ~first /\ corbit.hidden_ents = << >>
      toFocus  == IF backwards THEN entities[Len(entities)] ELSE entities[1]
      k == IF throws THEN [o |-> corbit, tw |-> ctweens, tm |-> timers]
           ELSE Collect(OrbitCSetFocus([o |-> corbit, tw |-> ctweens, tm |-> timers], toFocus))
  IN /\ ncalls < MaxCCalls /\ clock < CallWindow
     /\ ncalls' = ncalls + 1 /\ clock' = clock
     /\ corbit' = k.o /\ ctweens' = k.tw /\ timers' = k.tm
     /\ call' = CCall("cycleFocus", IF throws THEN NULL ELSE toFocus,
                      IF backwards THEN "backwards" ELSE "forwards", throws)
     /\ UNCHANGED mvars

\* render(time): TWEEN.update() followed by orbit.update(time * 0.1, true)
CFrame ==
  LET k0 == [o |-> corbit, tw |-> << >>,
             tm |-> [i \in DOMAIN timers |-> [timers[i] EXCEPT !.el = @ + CFrameMs]]]
      k1 == CTweenUpdate(k0, ctweens, 1)
      k  == Collect(OrbitUpdate(k1, CNorm(corbit.rot + 1)))
  IN /\ \A i \in DOMAIN timers : ~IsDue(timers[i])
     /\ corbit' = k.o /\ ctweens' = k.tw /\ timers' = k.tm
     /\ clock' = Min(clock + 1, CallWindow)
     /\ call' = CCall("frame", NULL, "frame", FALSE)
     /\ UNCHANGED <<ncalls, mvars>>

OnFinish_NoRestore(o, t) == Detach(o, t.obj)

\* onFinish of _tryDock: obj.removeFromParent(); hidden_obj.visible = true
OnFinish(o, t) == [Detach(o, t.obj) EXCEPT !.objs[t.hidden].vis = TRUE]

\* the setTimeout(onFinish, time) of _tryDock expires
TimerFire ==
  /\ timers # << >> /\ IsDue(timers[1])
  /\ LET t == timers[1]
         k == Collect([o |-> OnFinish(corbit, t), tw |-> ctweens, tm |-> Tail(timers)])
     IN /\ corbit' = k.o /\ ctweens' = k.tw /\ timers' = k.tm
        /\ call' = CCall("timer", t.obj, "timer", FALSE)
  /\ UNCHANGED <<ncalls, clock, mvars>>

InitClone ==
  /\ corbit = CAddAll(NewCloneOrbit, NumCards)
  /\ ctweens = << >> /\ timers = << >> /\ clock = 0
  /\ orbit = NULL /\ tweens = << >> /\ ui = NULL
  /\ ncalls = 0
  /\ call = [op |-> "init", id |-> NULL, prev |-> NULL, path |-> "init", playing |-> FALSE,
             err |-> FALSE, parent |-> NULL]

NextClone ==
  \/ \E e \in CEnts \cup {NULL} : CSetFocus(e)
  \/ \E b \in BOOLEAN : CCycleFocus(b)
  \/ CFrame
  \/ TimerFire

SpecClone == InitClone /\ [][NextClone]_vars

\* requestAnimationFrame keeps calling render, so the rotation passed to
\* update keeps growing, and every setTimeout callback is eventually run
FramesAdvance == []<>(corbit.rot % 2 = 0) /\ []<>(corbit.rot % 2 = 1)

SpecCloneFair == SpecClone /\ WF_vars(TimerFire) /\ FramesAdvance

\* ---- building a ring: main() calls orbit.add(card, angle, true) once per card ----

\* orbit.add(entity, angle, true) for the next card, with the angle of the adds before it
AddCard(angle) ==
  LET n == corbit.nobj
  IN /\ n < MaxAdds
     /\ IF n = 0 THEN TRUE ELSE corbit.objs[corbit.main_orbit[n]].ang = angle
     /\ corbit' = COrbitAdd(corbit, n + 1, angle)
     /\ call' = [op |-> "add", id |-> n + 1, prev |-> NULL, path |-> "add", playing |-> FALSE,
                 err |-> FALSE, parent |-> NULL]
     /\ UNCHANGED <<ctweens, timers, clock, ncalls, mvars>>

InitAdd ==
  /\ corbit = NewCloneOrbit
  /\ ctweens = << >> /\ timers = << >> /\ clock = 0
  /\ orbit = NULL /\ tweens = << >> /\ ui = NULL
  /\ ncalls = 0
  /\ call = [op |-> "init", id |-> NULL, prev |-> NULL, path |-> "init", playing |-> FALSE,
             err |-> FALSE, parent |-> NULL]

NextAdd == \E angle \in 0..(CTwoPi - 1) : AddCard(angle)

SpecAdd == InitAdd /\ [][NextAdd]_vars

\* ---- src/main.js: the clone variant that keeps this.entities and this.focused ----
\* corbit holds the orbit, ctweens the running tweens, clock the frames rendered;
\* the cards' own rotation.y is not part of the state

EBringTime == 3000
ETransportTime == 500
MaxEObj == MaxAdds + MaxECalls     \* every _bringToFront creates one object

ENoObj == [orig |-> NULL, ang |-> 0, rad |-> 0, vis |-> FALSE, roty |-> 0]

\* constructor
NewEntOrbit ==
  [entities        |-> << >>,
   focused         |-> [clone |-> NULL, real_obj |-> NULL],
   main_orbit      |-> << >>,
   focus_orbit     |-> << >>,
   transport_orbit |-> << >>,
   rot             |-> 0,
   phi             |-> 0,
   nobj            |-> 0,
   objs            |-> [x \in 1..MaxEObj |-> ENoObj]]

\* Array.indexOf, 0-based, -1 when absent
IndexOf(seq, x) ==
  IF Contains(seq, x) THEN (CHOOSE j \in DOMAIN seq : seq[j] = x) - 1 ELSE 0 - 1

\* Orbit.add(entity, angle, true)
EOrbitAdd(o, e, angle) ==
  LET n == Len(o.entities) + 1
      moved == [x \in 1..MaxEObj |->
                 IF Contains(o.entities, x)
                 THEN [o.objs[x] EXCEPT !.ang = CNorm(angle + (IndexOf(o.entities, x) + 1)
                                                              * (CTwoPi \div n)),
                                        !.rad = radius]
                 ELSE o.objs[x]]
  IN [o EXCEPT !.objs = [moved EXCEPT ![e] = [orig |-> e, ang |-> CNorm(angle), rad |-> radius,
                                              vis |-> TRUE, roty |-> 0]],
               !.main_orbit = AttachTo(o.main_orbit, e),
               !.entities = Append(o.entities, e),
               !.nobj = IF e > o.nobj THEN e ELSE o.nobj]

RECURSIVE EAddAll(_, _)
EAddAll(o, n) == IF n = 0 THEN o ELSE EOrbitAdd(EAddAll(o, n - 1), n, 0)

\* Orbit._bringToFront(entity) on k = [o |-> corbit, tw |-> ctweens]
EBringToFront(k, e) ==
  LET o     == k.o
      id    == o.nobj + 1
      local == CNorm(WorldAng(o, e) - o.phi)
      angle == 0 - CSigned(local)
      rec   == [orig |-> e, ang |-> local, rad |-> o.objs[e].rad, vis |-> o.objs[e].vis,
                roty |-> CNorm(o.objs[e].roty + o.rot - o.phi)]
      o1 == [o EXCEPT !.focused.clone = id,
                      !.nobj = id,
                      !.focus_orbit = Append(@, id),
                      !.objs[id] = rec]
      tw1 == k.tw \o
             << CTw("pos", id, EBringTime \div 2, local, rec.rad, local, MulFocus(rec.rad)),
                CTw("rot", id, EBringTime, 0, CSigned(rec.roty), 0, 0 - angle),
                CTw("forot", NULL, EBringTime, 0, o.phi, 0, angle) >>
  IN [k EXCEPT !.o = o1, !.tw = tw1]

\* Orbit._focusToTransport()
EFocusToTransport(k) ==
  LET o     == k.o
      x     == o.focused.clone
      local == CNorm(WorldAng(o, x) - 3 * o.rot)
      d     == Detach(o, x)
      o1 == [d EXCEPT !.transport_orbit = Append(@, x),
                      !.objs[x].ang = local,
                      !.objs[x].roty = CNorm(0 - 3 * o.rot),
                      !.phi = 0]
      tw1 == Append(k.tw, CTw("pos", x, ETransportTime, local, o.objs[x].rad,
                                  local, FocusToTrans(o.objs[x].rad)))
  IN [k EXCEPT !.o = o1, !.tw = tw1]

\* Orbit.setFocus(entity)
OrbitESetFocus(k, entity) ==
  LET k1 == IF k.o.focused.clone # NULL THEN EFocusToTransport(k) ELSE k
  IN IF entity # NULL
     THEN [EBringToFront(k1, entity) EXCEPT !.o.focused.real_obj = entity,
                                            !.o.objs[entity].vis = FALSE]
     ELSE [k1 EXCEPT !.o.focused = [clone |-> NULL, real_obj |-> NULL]]

\* the index picked by the else branch of cycleFocus, going one step the other way
CycleIndex_Reversed(o, backwards) ==
  LET n == Len(o.entities)
      f == IF backwards THEN IndexOf(o.entities, o.focused.real_obj) + 1
                        ELSE IndexOf(o.entities, o.focused.real_obj) - 1
  IN IF f = n THEN 0 ELSE IF f < 0 THEN n - 1 ELSE f

\* the index picked by the else branch of cycleFocus
CycleIndex(o, backwards) ==
  LET n == Len(o.entities)
      f == IF backwards THEN IndexOf(o.entities, o.focused.real_obj) - 1
                        ELSE IndexOf(o.entities, o.focused.real_obj) + 1
  IN IF f = n THEN 0 ELSE IF f < 0 THEN n - 1 ELSE f

\* the entity handed to setFocus by cycleFocus(backwards); NULL stands for undefined
ToFocus(o, backwards) ==
  LET n == Len(o.entities)
  IN IF o.focused.real_obj = NULL /\ n > 0
     THEN IF backwards THEN o.entities[n] ELSE o.entities[1]
     ELSE IF CycleIndex(o, backwards) + 1 \in DOMAIN o.entities
          THEN o.entities[CycleIndex(o, backwards) + 1]
          ELSE NULL

\* orbit.cycleFocus(backwards); setFocus(undefined) throws in _bringToFront
ECycleFocus(backwards) ==
  LET toFocus == ToFocus(corbit, backwards)
      throws  == toFocus = NULL
      k0 == [o |-> corbit, tw |-> ctweens]
      k  == IF throws
            THEN (IF corbit.focused.clone # NULL THEN EFocusToTransport(k0) ELSE k0)
            ELSE OrbitESetFocus(k0, toFocus)
  IN /\ ncalls < MaxECalls
     /\ ncalls' = ncalls + 1
     /\ corbit' = k.o /\ ctweens' = k.tw
     /\ call' = [op |-> "cycleFocus", id |-> toFocus, prev |-> corbit.focused.real_obj,
                 path |-> IF backwards THEN "backwards" ELSE "forwards", playing |-> FALSE,
                 err |-> throws, parent |-> NULL]
     /\ UNCHANGED <<timers, clock, mvars>>

\* Orbit.update(rotation, true): the entity compared with this.focused.clone is
\* skipped, every other member of this.entities is counter-rotated
EOrbitUpdate(o, rotation) ==
  [o EXCEPT !.rot = rotation,
            !.objs = [x \in 1..MaxEObj |->
                        IF Contains(o.entities, x) /\ x # o.focused.clone
                        THEN [o.objs[x] EXCEPT !.roty = CNorm(0 - rotation)]
                        ELSE o.objs[x]]]

\* render(time): TWEEN.update() followed by orbit.update(time * 0.1, true)
EFrame ==
  LET k1 == CTweenUpdate([o |-> corbit, tw |-> << >>], ctweens, 1)
  IN /\ clock < MaxEFrames
     /\ clock' = clock + 1
     /\ corbit' = EOrbitUpdate(k1.o, CNorm(corbit.rot + 1))
     /\ ctweens' = k1.tw
     /\ call' = [op |-> "frame", id |-> NULL, prev |-> corbit.focused.real_obj,
                 path |-> "frame", playing |-> FALSE, err |-> FALSE, parent |-> NULL]
     /\ UNCHANGED <<timers, ncalls, mvars>>

InitCycle ==
  /\ \E n \in 1..MaxAdds : corbit = EAddAll(NewEntOrbit, n)
  /\ ctweens = << >> /\ timers = << >> /\ clock = 0
  /\ orbit = NULL /\ tweens = << >> /\ ui = NULL
  /\ ncalls = 0
  /\ call = [op |-> "init", id |-> NULL, prev |-> NULL, path |-> "init", playing |-> FALSE,
             err |-> FALSE, parent |-> NULL]

NextCycle ==
  \/ \E b \in BOOLEAN : ECycleFocus(b)
  \/ EFrame

SpecCycle == InitCycle /\ [][NextCycle]_vars

\* ============================================== properties: move variant
InMain(e)   == Contains(orbit.main_orbit, e)
InFocus(e)  == Contains(orbit.focus_orbit, e)
InSystem(e) == Contains(orbit.system, e)

Occurrences(seq, e) == Cardinality({i \in DOMAIN seq : seq[i] = e})

\* number of places of the scene graph that hold entity e
Copies(e) == Occurrences(orbit.main_orbit, e) + Occurrences(orbit.focus_orbit, e)
             + Occurrences(orbit.system, e)

RetTweens(e) == {i \in DOMAIN tweens : tweens[i].kind = "ret" /\ tweens[i].ent = e}

\* C1: setFocus(A) then setFocus(B) while A's entry is still in flight leaves B
\* as the only focused entity and the only member of the Focus Ring, with A
\* on its way back (one return animation, no decoration); an entity that is
\* neither focused nor animated back is a child of the Main Ring, carries no
\* highlight/button child, and every entity has exactly one place in the system.
C1_InterruptedFocus ==
  /\ (call.op = "setFocus" /\ call.path = "switch" /\ call.playing) =>
        /\ orbit.focused = call.id
        /\ orbit.focus_orbit = << call.id >>
        /\ InSystem(call.prev)
  /\ \A a \in Ents :
        /\ Copies(a) = 1
        /\ InSystem(a) => /\ Cardinality(RetTweens(a)) = 1
                          /\ \A i \in RetTweens(a) : tweens[i].on /\ tweens[i].el < animation_time
                          /\ orbit.deco[a] = 0
        /\ (orbit.focused # a /\ RetTweens(a) = {}) => InMain(a) /\ orbit.deco[a] = 0

\* C1 witness: B's entry completes in the frame in which A, whose entry B
\* interrupted, arrives back in the Main Ring
C1_Witness ==
  \E a \in Ents : \E b \in Ents \ {a} :
     /\ call.op = "frame"
     /\ orbit.focused = b /\ orbit.deco[b] = 1
     /\ \E i \in DOMAIN tweens : tweens[i].kind = "fadein" /\ tweens[i].on /\ tweens[i].el = 0
     /\ InMain(a) /\ orbit.pos[a].rad < radius /\ orbit.deco[a] = 0
     /\ RetTweens(a) = {}

\* C7: setFocus(id) with the identifier of the entity that is already focused
\* (entering or fully focused) changes nothing: no animation is started or
\* stopped, and focused, ring membership, Focus Ring rotation and overlay stay.
C7_RedundantFocusNoOp ==
  [][ (call'.op = "setFocus" /\ orbit.focused # NULL /\ call'.id = orbit.focused)
        => (orbit' = orbit /\ tweens' = tweens) ]_vars

\* C7 witness: a redundant setFocus has just run during the entry animation
C7_Witness ==
  /\ call.op = "setFocus" /\ call.id # NULL
  /\ call.prev = call.id /\ orbit.focused = call.id
  /\ call.playing

\* C9 (as claimed): setFocus(id) with a non-null id that matches no Main Ring
\* entity changes nothing, whatever is focused.
C9_InvalidTargetNoOp ==
  [][ (call'.op = "setFocus" /\ call'.id # NULL /\ ~Contains(orbit.main_orbit, call'.id))
        => (orbit' = orbit /\ tweens' = tweens) ]_vars


\* ============================================= properties: clone variant
Dups == (NumCards + 1)..MaxObj

OnRing(x) ==
  \/ Contains(corbit.main_orbit, x)
  \/ Contains(corbit.focus_orbit, x)
  \/ Contains(corbit.transport_orbit, x)

\* the original whose duplicate is in the Focus Ring as this.clone, or NULL
CFocused ==
  IF corbit.clone # NULL /\ Contains(corbit.focus_orbit, corbit.clone)
  THEN corbit.objs[corbit.clone].orig ELSE NULL

\* the slot that add() gave to card e
Slot(e) == CAddAll(NewCloneOrbit, NumCards).objs[e]

\* setFocus(E) has just been followed, with no frame in between, by
\* setFocus(null), and these were the first two calls
C2_Released ==
  /\ ncalls = 2 /\ call.op = "setFocus" /\ call.id = NULL /\ call.prev # NULL
  /\ \E i \in DOMAIN ctweens :
       /\ ctweens[i].kind = "pos" /\ ctweens[i].obj = call.prev
       /\ ctweens[i].el = 0 /\ ctweens[i].tr = MulFocus(ctweens[i].fr)

C2_Restored ==
  LET d == corbit.clone
      e == corbit.objs[d].orig
  IN /\ d \in Dups /\ ~OnRing(d)
     /\ corbit.objs[e].vis
     /\ Contains(corbit.main_orbit, e)
     /\ corbit.objs[e].ang = Slot(e).ang /\ corbit.objs[e].rad = Slot(e).rad

\* C2: in the clone variant, setFocus(E) followed immediately by
\* setFocus(null) from the unfocused start, with frames advancing and no
\* further call, leads to a state where E is visible again, the duplicate of
\* E is on no ring, and E has its pre-focus local position in the Main Ring.
C2_RoundTrip == C2_Released ~> (C2_Restored \/ ncalls > 2)

C2_Witness ==
  /\ ncalls = 2 /\ call.op = "timer" /\ call.id = corbit.clone
  /\ corbit.nobj = NumCards + 1 /\ corbit.hidden_ents = << >>
  /\ C2_Restored

\* C3 (as claimed): in the clone variant, in every state with no docking
\* timer and no animation pending, every original in the Main Ring other
\* than the focused one is visible, the focused original is hidden and has
\* exactly one visible duplicate in the Focus Ring, and no duplicate is in
\* the Transport Ring or the Main Ring.
C3_QuiescentConsistent ==
  (ctweens = << >> /\ timers = << >>) =>
    /\ \A e \in CEnts :
         (Contains(corbit.main_orbit, e) /\ e # CFocused) => corbit.objs[e].vis
    /\ CFocused # NULL =>
         /\ ~corbit.objs[CFocused].vis
         /\ Cardinality({x \in Dups : /\ Contains(corbit.focus_orbit, x)
                                      /\ corbit.objs[x].orig = CFocused
                                      /\ corbit.objs[x].vis}) = 1
    /\ \A x \in Dups :
         ~Contains(corbit.transport_orbit, x) /\ ~Contains(corbit.main_orbit, x)

\* C4 (as claimed): in the clone variant, whenever _tryDock has reparented a
\* duplicate into the Main Ring and scheduled a visibility restore, the
\* hidden entity of that restore is the one the duplicate was cloned from.
C4_DocksIntoOwnOriginal ==
  \A i \in DOMAIN timers : corbit.objs[timers[i].obj].orig = timers[i].hidden

\* C5 (as claimed): in the clone variant, each duplicate is docked at most
\* once over a run, one _tryDock call docks it into at most one hidden
\* original, and no two pending restores share a duplicate or a hidden
\* original.
C5_NoDoubleDock ==
  /\ \A x \in Dups : corbit.objs[x].docks <= 1
  /\ \A i, j \in DOMAIN timers :
       i # j => /\ timers[i].obj # timers[j].obj
                /\ timers[i].hidden # timers[j].hidden

\* C6 (as claimed): in the clone variant, with frames advancing, every
\* duplicate on the Transport Ring is eventually docked and removed from
\* every ring with its original visible; none stays on the Transport Ring
\* forever.
C6_ReleasedEventuallyDocks ==
  \A x \in Dups :
    Contains(corbit.transport_orbit, x)
      ~> (x <= corbit.nobj /\ ~OnRing(x) /\ corbit.objs[corbit.objs[x].orig].vis)

\* C8 (as claimed): in the clone variant, setFocus(E) for the entity E whose
\* duplicate is the focused one changes nothing: no new duplicate, no
\* release to the Transport Ring, hidden_ents and clone unchanged.
C8_RedundantCloneFocusNoOp ==
  [][ (/\ call'.op = "setFocus" /\ call'.id # NULL
       /\ CFocused = call'.id)
      => (corbit' = corbit /\ ctweens' = ctweens /\ timers' = timers) ]_vars

\* C10 (as claimed): in the clone variant, setFocus(null) with nothing
\* focused returns without an error and changes no state.
C10_UnfocusNothingNoOp ==
  [][ (call'.op = "setFocus" /\ call'.id = NULL /\ corbit.clone = NULL)
      => (/\ ~call'.err
          /\ corbit' = corbit /\ ctweens' = ctweens /\ timers' = timers) ]_vars


\* C11 (as claimed): in the clone variant, setFocus(null) called while a
\* duplicate is focused leaves this.clone null, so that a later setFocus
\* does not release the old duplicate again.
C11_UnfocusClearsClone ==
  [][ (call'.op = "setFocus" /\ call'.id = NULL /\ CFocused # NULL)
      => corbit'.clone = NULL ]_vars


\* ============================================== properties: click bridge
\* C12 (as claimed): a click whose pick ray intersects nothing is a no-op in
\* every state, also while an entity is focused: no error is raised and
\* neither the orbit, the tweens nor the page change.
C12_PickMissNoOp ==
  [][ (call'.op = "click" /\ call'.path = "miss")
      => (~call'.err /\ orbit' = orbit /\ tweens' = tweens /\ ui' = ui) ]_vars

\* C13: a click enters detail mode only if an entity is focused and the
\* picked object or its direct parent carries the focused entity's
\* identifier; every other click that picks an object, and every click while
\* nothing is focused, leaves page, orbit and tweens unchanged.
C13_DetailOnlyForFocused ==
  [][ (call'.op = "click" /\ (call'.path = "hit" \/ orbit.focused = NULL))
      => \/ /\ orbit.focused # NULL
            /\ (call'.id = orbit.focused \/ call'.parent = orbit.focused)
         \/ (orbit' = orbit /\ tweens' = tweens /\ ui' = ui) ]_vars

C13_Witness ==
  /\ call.op = "click" /\ call.path = "hit" /\ call.prev # NULL
  /\ call.id # call.prev /\ call.parent = call.prev
  /\ ui.info_block = 1 /\ ui.nav_menu = 0 /\ ~ui.swiper /\ ui.explored
  /\ orbit.focused = call.prev /\ orbit.deco[orbit.focused] = 0


\* C14: after N adds with redistribute_all = true and one angle, no focus in between, the N
\* entities sit at radius on N distinct slots angle + k * 2pi/N, the newest at slot 0 and
\* the one inserted i-th (0-based) at slot i + 1.
C14_UniformSlots ==
  LET N == Len(corbit.main_orbit)
  IN (call.op = "add" /\ N >= 1) =>
       LET angle == corbit.objs[corbit.main_orbit[N]].ang
           offset == CTwoPi \div N
       IN /\ \A i \in 0..(N - 1) :
                LET x == corbit.main_orbit[i + 1]
                IN /\ x = i + 1
                   /\ corbit.objs[x].rad = radius
                   /\ corbit.objs[x].ang = CNorm(angle + (IF i = N - 1 THEN 0 ELSE i + 1) * offset)
          /\ \A x, y \in 1..N : x # y => corbit.objs[x].ang # corbit.objs[y].ang

C14_Witness ==
  /\ call.op = "add" /\ Len(corbit.main_orbit) = 3
  /\ corbit.objs[3].ang = 5 /\ corbit.objs[1].ang = 5 + CTwoPi \div 3
  /\ corbit.objs[2].ang = 5 + 2 * (CTwoPi \div 3)


\* the entities focused so far, oldest first: the originals of the released clones
\* followed by that of the focused clone
FocusHistory ==
  [i \in 1..Len(corbit.transport_orbit) |-> corbit.objs[corbit.transport_orbit[i]].orig]
  \o [i \in 1..Len(corbit.focus_orbit) |-> corbit.objs[corbit.focus_orbit[i]].orig]

\* C15: with N >= 1 entities, cycleFocus from the unfocused state focuses the first entity
\* (forwards) or the last (backwards); with entity i focused it focuses entity (i+1) mod N
\* forwards and (i-1) mod N backwards, without an error.
C15_CycleOrder ==
  [][ call'.op = "cycleFocus" =>
        LET N == Len(corbit.entities)
            i == IndexOf(corbit.entities, corbit.focused.real_obj)
            next == IF corbit.focused.real_obj = NULL
                    THEN (IF call'.path = "forwards" THEN 0 ELSE N - 1)
                    ELSE (IF call'.path = "forwards" THEN (i + 1) % N ELSE (i - 1) % N)
        IN /\ ~call'.err
           /\ corbit'.focused.real_obj = corbit.entities[next + 1]
           /\ corbit'.focused.clone # NULL
           /\ corbit'.objs[corbit'.focused.clone].orig = corbit.entities[next + 1]
           /\ corbit'.entities = corbit.entities ]_vars

\* N = 3: the fourth forward call from the unfocused state focuses the first entity again
C15_Witness ==
  /\ Len(corbit.entities) = 3
  /\ call.op = "cycleFocus" /\ call.path = "forwards"
  /\ FocusHistory = <<1, 2, 3, 1>>
  /\ corbit.focused.real_obj = 1


\* the tweens of the kinds ks started by the entry of entity e that are still alive
EntryTweens(tw, e, ks) == {i \in DOMAIN tw : tw[i].ent = e /\ tw[i].kind \in ks}

\* C16 (as claimed): a setFocus with a new target or null during an entry in flight stops
\* every rotation and position animation of that entry: none of them is alive after the
\* call, and neither is the chained fade-in that would follow them.
C16_EntryStopped ==
  [][ (call'.op = "setFocus" /\ call'.playing /\ call'.path \in {"switch", "release"}) =>
        EntryTweens(tweens', orbit.focused, {"forot", "entrot", "entpos", "fadein"}) = {} ]_vars


\* the exit tween started for entity e by the step that just happened
NewRet(tw, e) == {i \in DOMAIN tw : tw[i].kind = "ret" /\ tw[i].ent = e /\ tw[i].el = 0}

\* C17: the exit animation started by _focusedToOrbit begins at the position the entity
\* has at the call; it ends at that position divided by the focus multiplier exactly when
\* the entry position animation is still playing, else at angle pi/4 on the ring radius.
C17_ExitPath ==
  [][ (call'.op = "setFocus" /\ call'.path \in {"switch", "release"}) =>
        LET e == orbit.focused
            here == [ang |-> Norm(orbit.pos[e].ang + orbit.phi), rad |-> orbit.pos[e].rad]
        IN /\ NewRet(tweens', e) # {}
           /\ \A i \in NewRet(tweens', e) :
                /\ tweens'[i].on
                /\ tweens'[i].sa = here.ang /\ tweens'[i].from = here.rad
                /\ orbit'.pos[e] = here
                /\ IF IsPlaying(tweens, "entpos")
                   THEN tweens'[i].to = here.ang /\ tweens'[i].aux = DivFocus(here.rad)
                   ELSE tweens'[i].to = PiOver4 /\ tweens'[i].aux = radius ]_vars

\* an exit requested after the entry completed starts from the focus point
C17_Witness ==
  /\ call.op = "setFocus" /\ call.path = "release" /\ ~call.playing
  /\ \E i \in NewRet(tweens, call.prev) :
       /\ tweens[i].from = MulFocus(radius)
       /\ tweens[i].to = PiOver4 /\ tweens[i].aux = radius
       /\ orbit.pos[call.prev].rad = MulFocus(radius)


\* the orbit and the tweens at the moment setFocus(id) reaches its _bringToFront call
AtBringToFront ==
  IF orbit.focused # NULL THEN FocusedToOrbit([o |-> orbit, tw |-> tweens])
                          ELSE [o |-> orbit, tw |-> tweens]

\* C18 (as claimed): whenever _bringToFront is called the Focus Ring's rotation is 0 and
\* no tween of an earlier entry is still writing the Focus Ring's rotation.
C18_FocusRingAtRest ==
  [][ (call'.op = "setFocus" /\ call'.path \in {"focus", "switch"}) =>
        /\ AtBringToFront.o.phi = 0
        /\ ~IsPlaying(AtBringToFront.tw, "forot") ]_vars


\* C19: from the moment an entity is pulled into focus until its exit animation has put it
\* back into the Main Ring neither of its drift tweens is playing and onRepeat never flips
\* the sign of bound; the drift is started again exactly on arrival in the Main Ring.
C19_DriftPaused ==
  [][ \A e \in Ents :
        /\ ~Contains(orbit'.main_orbit, e) => (~orbit'.drift[e].init /\ ~orbit'.drift[e].yoyo)
        /\ ~Contains(orbit.main_orbit, e) => orbit'.drift[e].bound = orbit.drift[e].bound
        /\ (~orbit.drift[e].init /\ orbit'.drift[e].init)
             <=> (~Contains(orbit.main_orbit, e) /\ Contains(orbit'.main_orbit, e))
        /\ (~Contains(orbit.main_orbit, e) /\ Contains(orbit'.main_orbit, e))
             => (orbit'.drift[e].el = 0 /\ ~orbit'.drift[e].yoyo) ]_vars

\* a card that was focused is back on the ring with its drift restarted from the start,
\* while the onRepeat of another card, which stayed on the ring, has run
C19_Witness ==
  /\ call.op = "frame" /\ orbit.rot > 0
  /\ \E e \in Ents :
       /\ Contains(orbit.main_orbit, e)
       /\ orbit.drift[e] = NewDrift
       /\ \E x \in Ents \ {e} : orbit.drift[x].bound = 0 - 1


\* C20: an entry starts the Focus Ring rotation, the entity rotation and the entity
\* position tweens in one call and leaves its fade-in unstarted; a fade-in runs only once
\* the entity rotation of its entry is over, and the overlay opacity rises only in a frame
\* in which such a fade-in is running.
C20_FadeAfterRotation ==
  [][ /\ (call'.op = "setFocus" /\ call'.path \in {"focus", "switch"}) =>
           /\ \A k \in {"forot", "entrot", "entpos"} :
                \E i \in EntryTweens(tweens', call'.id, {k}) :
                  tweens'[i].on /\ tweens'[i].el = 0
           /\ \A i \in EntryTweens(tweens', call'.id, {"fadein"}) : ~tweens'[i].on
      /\ \A i \in DOMAIN tweens' :
           (tweens'[i].kind = "fadein" /\ tweens'[i].on) =>
             EntryTweens(tweens', tweens'[i].ent, {"entrot"}) = {}
      /\ orbit'.opacity > orbit.opacity =>
           \E i \in DOMAIN tweens :
             /\ tweens[i].kind = "fadein" /\ tweens[i].on
             /\ EntryTweens(tweens, tweens[i].ent, {"entrot"}) = {} ]_vars

\* the overlay has reached 0.6 one frame after the entry of the focused entity completed
C20_Witness ==
  /\ call.op = "frame"
  /\ orbit.focused # NULL
  /\ orbit.opacity = FadeTarget
  /\ orbit.deco[orbit.focused] > 0
  /\ EntryTweens(tweens, orbit.focused, {"forot", "entrot", "entpos", "fadein"}) = {}


\* the entry position tween of e completes in the next frame
EntryCompletes(e) ==
  \E i \in EntryTweens(tweens, e, {"entpos"}) :
    tweens[i].on /\ tweens[i].el + FrameMs >= Dur(tweens[i])

\* C21 (as claimed): an entity is decorated only in the frame that completes its entry
\* position animation, and it is then the focused one; an entity that is not focused
\* carries no decoration.
C21_DecoratedOnlyOnEntry ==
  [][ \A e \in Ents :
        /\ orbit'.deco[e] > orbit.deco[e] =>
             (call'.op = "frame" /\ EntryCompletes(e) /\ orbit'.focused = e)
        /\ orbit'.focused # e => orbit'.deco[e] = 0 ]_vars


\* the clone-variant orbit when render() has run TWEEN.update() and is about to call
\* orbit.update
BeforeUpdate == CTweenUpdate([o |-> corbit, tw |-> << >>, tm |-> timers], ctweens, 1).o

\* C22 (as claimed): right after update(r, true) the Main Ring rotation is r (the
\* Transport Ring turns at three times that), a Main Ring child whose frozen flag was
\* clear has own rotation -r, and the own rotation of a child whose frozen flag was set
\* is what it was before the call.
C22_CounterRotation ==
  [][ call'.op = "frame" =>
        /\ corbit'.rot = CNorm(corbit.rot + 1)
        /\ \A x \in 1..MaxObj :
             Contains(BeforeUpdate.main_orbit, x) =>
               IF BeforeUpdate.objs[x].freeze
               THEN corbit'.objs[x].roty = BeforeUpdate.objs[x].roty
               ELSE corbit'.objs[x].roty = CNorm(0 - corbit'.rot) ]_vars


\* C23 (as claimed): in src/main.js update(r, true) sets the own rotation of every Main
\* Ring entity to -r, except that of the hidden real entity of the focused clone, which
\* it leaves unchanged.
C23_HiddenRealSkipped ==
  [][ (call'.op = "frame" /\ "entities" \in DOMAIN corbit) =>
        \A x \in 1..MaxEObj :
          Contains(corbit.entities, x) =>
            IF x = corbit.focused.real_obj
            THEN corbit'.objs[x].roty = corbit.objs[x].roty
            ELSE corbit'.objs[x].roty = CNorm(0 - corbit'.rot) ]_vars


\* the first statements of update: both ring rotations and the own rotations of the
\* Main Ring children are written, the docking pass has not begun
BeforeDockPass ==
  UpdateRotations([o |-> BeforeUpdate, tw |-> << >>, tm |-> timers], CNorm(corbit.rot + 1))

\* the children on which transport_orbit.children.forEach calls _tryDock, from index i on
RECURSIVE DockChecked(_, _)
DockChecked(k, i) ==
  IF i > Len(k.o.transport_orbit) THEN {}
  ELSE {k.o.transport_orbit[i]}
         \cup DockChecked(TryDock(k, k.o.transport_orbit[i]), i + 1)

\* C24 (as claimed): within one update the ring rotations are written before the docking
\* checks, and every Transport Ring entity present at the start of the docking pass is
\* checked for docking in that same frame.
C24_AllTransportChecked ==
  [][ (call'.op = "frame" /\ "transport_orbit" \in DOMAIN corbit) =>
        /\ BeforeDockPass.o.rot = corbit'.rot
        /\ \A i \in DOMAIN BeforeDockPass.o.transport_orbit :
             BeforeDockPass.o.transport_orbit[i] \in DockChecked(BeforeDockPass, 1) ]_vars


\* the clone-variant orbit after one more update with the rotation it already has
UpdatedAgain ==
  OrbitUpdate([o |-> corbit, tw |-> ctweens, tm |-> timers], corbit.rot).o

\* C25 (as claimed): update(r, true) is idempotent at a fixed r: right after update, a
\* second call with the same r leaves the ring rotations, every entity's own rotation and
\* frozen flag, the membership of the three rings and hidden_ents unchanged.
C25_UpdateIdempotent ==
  (call.op = "frame" /\ "transport_orbit" \in DOMAIN corbit) =>
     /\ UpdatedAgain.rot = corbit.rot
     /\ UpdatedAgain.main_orbit = corbit.main_orbit
     /\ UpdatedAgain.transport_orbit = corbit.transport_orbit
     /\ UpdatedAgain.focus_orbit = corbit.focus_orbit
     /\ UpdatedAgain.hidden_ents = corbit.hidden_ents
     /\ \A x \in 1..MaxObj : /\ UpdatedAgain.objs[x].roty = corbit.objs[x].roty
                             /\ UpdatedAgain.objs[x].freeze = corbit.objs[x].freeze


\* ---- Orbit.add called on a ring that is already built ----

\* the call record of an add; path names the Orbit class that ran it
AddCall(e, variant) ==
  [op |-> "add", id |-> e, prev |-> NULL, path |-> variant, playing |-> FALSE,
   err |-> FALSE, parent |-> NULL]

\* src/js/main.js: orbit.add(entity, angle, true), entity one of the cards of the ring
ReAdd(e, angle) ==
  /\ ncalls < MaxReAdds
  /\ orbit' = OrbitAdd(orbit, e, angle)
  /\ ncalls' = ncalls + 1
  /\ call' = AddCall(e, "children")
  /\ UNCHANGED <<tweens, ui, cvars>>

\* src/main.js: orbit.add(entity, angle, true), entity a new one or one of the ring
EReAdd(e, angle) ==
  /\ ncalls < MaxReAdds
  /\ e <= corbit.nobj + 1
  /\ corbit' = EOrbitAdd(corbit, e, angle)
  /\ ncalls' = ncalls + 1
  /\ call' = AddCall(e, "entities")
  /\ UNCHANGED <<ctweens, timers, clock, mvars>>

InitReAdd ==
  /\ orbit = AddAll(NewOrbit, NumEnts)
  /\ tweens = << >> /\ ui = NewPage
  /\ \E n \in 1..MaxAdds : corbit = EAddAll(NewEntOrbit, n)
  /\ ctweens = << >> /\ timers = << >> /\ clock = 0
  /\ ncalls = 0
  /\ call = [op |-> "init", id |-> NULL, prev |-> NULL, path |-> "init", playing |-> FALSE,
             err |-> FALSE, parent |-> NULL]

NextReAdd ==
  \/ \E e \in Ents, angle \in 0..MaxAngle : ReAdd(e, angle)
  \/ \E e \in 1..(MaxAdds + 1), angle \in 0..MaxAngle : EReAdd(e, angle)

SpecReAdd == InitReAdd /\ [][NextReAdd]_vars

\* no element occurs twice in seq
NoDup(seq) == \A i, j \in DOMAIN seq : seq[i] = seq[j] => i = j

\* C26 (as claimed): adding an entity that a ring already owns is rejected: the state is
\* unchanged, and no entity appears twice in the list of entities.
C26_OwnedAddRejected ==
  [][ call'.op = "add" =>
        /\ (call'.path = "children" /\ Contains(orbit.main_orbit, call'.id)) => orbit' = orbit
        /\ (call'.path = "entities" /\ Contains(corbit.main_orbit, call'.id)) => corbit' = corbit
        /\ NoDup(orbit'.main_orbit)
        /\ NoDup(corbit'.entities) ]_vars


\* C27: in the move variant every entity is a child of exactly one of the Main Ring, the
\* Focus Ring and the system; the Focus Ring holds at most one entity, and it holds an
\* entity exactly when focused is non-null and is that entity.
C27_RingPartition ==
  /\ \A e \in Ents : /\ Copies(e) = 1
                     /\ InFocus(e) <=> orbit.focused = e
  /\ Len(orbit.focus_orbit) <= 1
  /\ orbit.focused # NULL => orbit.focus_orbit = << orbit.focused >>

\* C27 witness: one entity is focused in the Focus Ring while another, released before
\* it, is still a child of the system on its way back
C27_Witness ==
  \E a \in Ents : \E b \in Ents \ {a} :
     /\ orbit.focused = b /\ InFocus(b) /\ ~InMain(b)
     /\ InSystem(a) /\ ~InMain(a)
     /\ call.op = "frame"




\* ---- src/js/main.js, first Orbit class: nothing stops a tween, the highlight and the
\* ---- scale pass are started by setTimeout

V1Dur(t) ==
  IF t.kind \in {"fadein", "fadeout"} THEN V1FadeTime
  ELSE IF t.kind = "entpos" THEN (V1BringTime * 2) \div 3
  ELSE IF t.kind = "ret" THEN V1ExitTime
  ELSE V1BringTime

\* Orbit._bringToFront(entity) on s = [o |-> orbit, tw |-> tweens, tm |-> timers]
V1BringToFront(s, e) ==
  LET o     == s.o
      local == Norm(o.pos[e].ang + o.rot - o.phi)
      angle == 0 - Signed(local)
  IN [o  |-> [o EXCEPT !.focused = e,
                       !.main_orbit = Remove(o.main_orbit, e),
                       !.focus_orbit = AttachTo(o.focus_orbit, e),
                       !.pos[e] = [ang |-> local, rad |-> o.pos[e].rad]],
      tw |-> s.tw \o
             << FadeTween(e),
                Tw("forot", e, TRUE, o.phi, angle + PiOver14, 0),
                Tw("entrot", e, TRUE, 0, 0 - angle - PiOver12, 0),
                Tw("entpos", e, TRUE, o.pos[e].rad, MulFocus(o.pos[e].rad), 0) >>,
      tm |-> s.tm \o
             << [kind |-> "scale", ent |-> e, el |-> 0, due |-> V1BringTime],
                [kind |-> "highlight", ent |-> e, el |-> 0,
                 due |-> V1BringTime + V1HighlightLag] >>]

\* Orbit._focusedToOrbit()
V1FocusedToOrbit(s) ==
  LET o == s.o
      e == o.focused
      sysAng == Norm(o.pos[e].ang + o.phi)
  IN [s EXCEPT !.o = [Clear(o, e) EXCEPT
                        !.focus_orbit = Remove(o.focus_orbit, e),
                        !.system = AttachTo(o.system, e),
                        !.pos[e] = [ang |-> sysAng, rad |-> o.pos[e].rad],
                        !.focused = NULL,
                        !.phi = 0],
               !.tw = s.tw \o << Tw("fadeout", e, TRUE, o.opacity, 0, 0),
                                 [Tw("ret", e, TRUE, o.pos[e].rad, PiOver4, radius)
                                    EXCEPT !.sa = sysAng] >>]

\* Orbit.setFocus(id)
V1OrbitSetFocus(s, id) ==
  IF s.o.focused # NULL /\ id = s.o.focused
  THEN s
  ELSE LET s1 == IF s.o.focused # NULL THEN V1FocusedToOrbit(s) ELSE s
       IN IF Contains(s1.o.main_orbit, id) THEN V1BringToFront(s1, id) ELSE s1

V1SetFocus(id) ==
  LET s == V1OrbitSetFocus([o |-> orbit, tw |-> tweens, tm |-> timers], id)
  IN /\ ncalls < MaxV1Calls
     /\ ncalls' = ncalls + 1
     /\ orbit' = s.o /\ tweens' = s.tw /\ timers' = s.tm
     /\ UNCHANGED <<ui, corbit, ctweens, clock>>
     /\ call' = [op |-> "setFocus", id |-> id, prev |-> orbit.focused,
                 path |-> SetFocusPath(orbit, id),
                 playing |-> IsPlaying(tweens, "entpos"), err |-> FALSE, parent |-> NULL]

\* one tween of TWEEN.update(); every tween of this class has the default linear easing
V1UpdateTween(s, t) ==
  LET el  == t.el + FrameMs
      fin == el >= V1Dur(t)
      t1  == [t EXCEPT !.el = el]
      o   == s.o
      keep(o2) == [o |-> o2, tw |-> IF fin THEN s.tw ELSE Append(s.tw, t1)]
  IN IF ~t.on THEN [o |-> o, tw |-> Append(s.tw, t)]
     ELSE CASE t.kind = "forot" ->
                 keep([o EXCEPT !.phi = Lerp(t.from, t.to, EaseLinear(el, V1Dur(t)))])
            [] t.kind = "entrot" ->
                 IF fin
                 THEN [o |-> o,
                       tw |-> [i \in DOMAIN s.tw |->
                                IF s.tw[i].kind = "fadein" /\ ~s.tw[i].on /\ s.tw[i].ent = t.ent
                                THEN [s.tw[i] EXCEPT !.on = TRUE, !.from = o.opacity]
                                ELSE s.tw[i]]]
                 ELSE keep(o)
            [] t.kind = "entpos" ->
                 keep([o EXCEPT !.pos[t.ent].rad = Lerp(t.from, t.to, EaseLinear(el, V1Dur(t)))])
            [] t.kind \in {"fadein", "fadeout"} ->
                 keep([o EXCEPT !.opacity = Lerp(t.from, t.to, EaseLinear(el, V1Dur(t)))])
            [] t.kind = "ret" ->
                 IF fin
                 THEN keep([o EXCEPT !.system = Remove(o.system, t.ent),
                                     !.focus_orbit = Remove(o.focus_orbit, t.ent),
                                     !.main_orbit = AttachTo(o.main_orbit, t.ent),
                                     !.pos[t.ent] = [ang |-> Norm(t.to - o.rot), rad |-> t.aux]])
                 ELSE keep(o)

RECURSIVE V1TweenUpdate(_, _, _)
V1TweenUpdate(s, old, i) ==
  IF i > Len(old) THEN s ELSE V1TweenUpdate(V1UpdateTween(s, old[i]), old, i + 1)

\* a setTimeout callback that runs before the next frame
V1IsDue(t) == t.el + FrameMs >= t.due

\* render(time): TWEEN.update() followed by orbit.update(time * 0.1)
V1Frame ==
  LET s == V1TweenUpdate([o |-> orbit, tw |-> << >>], tweens, 1)
  IN /\ orbit.rot < MaxV1Frames
     /\ \A i \in DOMAIN timers : ~V1IsDue(timers[i])
     /\ orbit' = [s.o EXCEPT !.rot = Norm(orbit.rot + 1)]
     /\ tweens' = s.tw
     /\ timers' = [i \in DOMAIN timers |-> [timers[i] EXCEPT !.el = @ + FrameMs]]
     /\ UNCHANGED <<ui, ncalls, corbit, ctweens, clock>>
     /\ call' = [op |-> "frame", id |-> NULL, prev |-> orbit.focused,
                 path |-> "frame", playing |-> IsPlaying(tweens, "entpos"), err |-> FALSE,
                 parent |-> NULL]

\* the oldest due callback of _bringToFront runs: addHighlight(entity), or _scale(entity)
\* for a card that no probe ray meets
V1TimerFire ==
  \E i \in DOMAIN timers :
     /\ V1IsDue(timers[i])
     /\ \A j \in 1..(i - 1) : ~V1IsDue(timers[j])
     /\ orbit' = IF timers[i].kind = "highlight" THEN AddHighlight(orbit, timers[i].ent)
                 ELSE orbit
     /\ timers' = SubSeq(timers, 1, i - 1) \o SubSeq(timers, i + 1, Len(timers))
     /\ call' = [op |-> "timer", id |-> timers[i].ent, prev |-> orbit.focused,
                 path |-> timers[i].kind, playing |-> IsPlaying(tweens, "entpos"),
                 err |-> FALSE, parent |-> NULL]
     /\ UNCHANGED <<tweens, ui, ncalls, corbit, ctweens, clock>>

InitV1 ==
  /\ orbit = AddAll(NewOrbit, NumEnts)
  /\ tweens = << >> /\ timers = << >>
  /\ ui = NewPage
  /\ corbit = NULL /\ ctweens = << >> /\ clock = 0
  /\ ncalls = 0
  /\ call = [op |-> "init", id |-> NULL, prev |-> NULL, path |-> "init", playing |-> FALSE,
             err |-> FALSE, parent |-> NULL]

NextV1 == (\E id \in Ents \cup {NULL} : V1SetFocus(id)) \/ V1Frame \/ V1TimerFire

SpecV1 == InitV1 /\ [][NextV1]_vars

\* nothing is focused, TWEEN holds no started tween and no callback is pending
AtRest ==
  /\ orbit.focused = NULL
  /\ \A i \in DOMAIN tweens : ~tweens[i].on
  /\ timers = << >>

\* C28 (as claimed): after the focused entity is released the dimming overlay fades back
\* to 0: in every state in which nothing is focused and no animation is in flight the
\* overlay opacity is 0, whenever the release came relative to the entry's rotation
\* animation and its chained fade-in.
C28_OverlayClearAtRest == AtRest => orbit.opacity = 0


\* ---- Orbit._scale of the second Orbit class, on one entity at the focus point ----
\* orbit is [scale, limit]: the scale of the entity in thousandths and, for each probe
\* ray, the largest scale at which the ray misses the entity; tweens holds the shrink
\* tweens in flight

\* multiplyScalar(0.90)
Shrink(scale) == (scale * 9) \div 10

RECURSIVE Shrunk(_)
Shrunk(k) == IF k = 0 THEN FullScale ELSE Shrink(Shrunk(k - 1))

\* the probe rays for which raycaster.intersectObject(entity) is not empty
Hits(o) == {i \in 1..NumProbes : o.scale > o.limit[i]}

\* rescale(entity): a started tween of entity.scale to 90% of the scale it has now
ShrinkTween(o) == [kind |-> "scale", el |-> 0, from |-> o.scale, to |-> Shrink(o.scale)]

\* Orbit._scale(entity) on s = [o |-> orbit, tw |-> tweens]: the loop over the four
\* positions calls rescale once for every ray that intersects; the scale does not change
\* during the loop, so the tweens it starts are equal
OrbitScale(s) ==
  [s EXCEPT !.tw = @ \o [j \in 1..Cardinality(Hits(s.o)) |-> ShrinkTween(s.o)]]

\* the onComplete of the entry position tween calls _scale(entity)
ScaleStart ==
  LET s == OrbitScale([o |-> orbit, tw |-> tweens])
  IN /\ call.op = "init"
     /\ orbit' = s.o /\ tweens' = s.tw
     /\ call' = [op |-> "scale", id |-> Cardinality(Hits(orbit)), prev |-> NULL,
                 path |-> "scale", playing |-> FALSE, err |-> FALSE, parent |-> NULL]
     /\ UNCHANGED <<ui, ncalls, cvars>>

\* one shrink tween of TWEEN.update(); tweens added by an onComplete are updated in the
\* same pass with no time elapsed, so they stay as they are
ScaleUpdateTween(s, t) ==
  LET el == t.el + FrameMs
  IN IF el >= ScaleTime
     THEN OrbitScale([s EXCEPT !.o.scale = t.to])
     ELSE [s EXCEPT !.o.scale = Lerp(t.from, t.to, EaseLinear(el, ScaleTime)),
                    !.tw = Append(@, [t EXCEPT !.el = el])]

\* the tweens of one pass, in order; both branches continue with the next tween, the
\* test only has s1 evaluated before it
RECURSIVE ScaleTweenUpdate(_, _, _)
ScaleTweenUpdate(s, old, i) ==
  IF i > Len(old) THEN s
  ELSE LET s1 == ScaleUpdateTween(s, old[i])
       IN IF s1.o.scale <= s.o.scale
          THEN ScaleTweenUpdate(s1, old, i + 1)
          ELSE ScaleTweenUpdate(s1, old, i + 1)

\* render(time) while shrink tweens are in flight
ScaleFrame ==
  LET s == ScaleTweenUpdate([o |-> orbit, tw |-> << >>], tweens, 1)
  IN /\ tweens # << >>
     /\ orbit' = s.o /\ tweens' = s.tw
     /\ call' = [op |-> "frame", id |-> Len(tweens), prev |-> NULL,
                 path |-> "frame", playing |-> FALSE, err |-> FALSE, parent |-> NULL]
     /\ UNCHANGED <<ui, ncalls, cvars>>

\* an entity at full scale; each probe ray misses it after 0..MaxShrinks shrink steps
InitScale ==
  /\ \E limit \in [1..NumProbes -> {Shrunk(k) : k \in 0..MaxShrinks}] :
        orbit = [scale |-> FullScale, limit |-> limit]
  /\ tweens = << >> /\ ui = NULL
  /\ corbit = NULL /\ ctweens = << >> /\ timers = << >> /\ clock = 0
  /\ ncalls = 0
  /\ call = [op |-> "init", id |-> NULL, prev |-> NULL, path |-> "init", playing |-> FALSE,
             err |-> FALSE, parent |-> NULL]

NextScale == ScaleStart \/ ScaleFrame

SpecScale == InitScale /\ [][NextScale]_vars

\* C29 (as claimed): the scale pass shrinks the entity only while some probe ray
\* intersects it and stops as soon as none does, so that it ends with the first scale of
\* the 10% steps at which every ray misses, and at no time is more than one shrink
\* animation of the entity in flight.
C29_ScalePass ==
  /\ \A i \in DOMAIN tweens : Hits([orbit EXCEPT !.scale = tweens[i].from]) # {}
  /\ (call.op # "init" /\ tweens = << >>) =>
        /\ Hits(orbit) = {}
        /\ \E k \in 0..MaxShrinks :
              /\ orbit.scale = Shrunk(k)
              /\ \A j \in 0..(k - 1) : Hits([orbit EXCEPT !.scale = Shrunk(j)]) # {}
  /\ Len(tweens) <= 1


\* C30 (as claimed): a selection event of the menu for the identifier of an added entity
\* makes that entity the focused one as soon as setFocus returns, at any moment it can
\* arrive, also while another entity or that same entity is still animating back.
C30_SelectionFocuses ==
  [][ call'.op = "slide" =>
        /\ orbit'.focused = call'.id
        /\ orbit'.focus_orbit = << call'.id >> ]_vars


\* the element after x in seq (before x when backwards), wrapping around
Neighbour(seq, x, backwards) ==
  LET i == CHOOSE j \in DOMAIN seq : seq[j] = x
      n == Len(seq)
  IN IF backwards THEN seq[((i + n - 2) % n) + 1] ELSE seq[(i % n) + 1]

\* C31 (as claimed): in the clone variant, with two or more entities in the Main Ring and
\* a duplicate focused, cycleFocus(false) focuses the entity after the focused original in
\* Main Ring order, wrapping from the last to the first, and cycleFocus(true) the one
\* before it.
C31_CycleToNeighbour ==
  [][ (/\ call'.op = "cycleFocus"
       /\ "hidden_ents" \in DOMAIN corbit
       /\ corbit.clone # NULL
       /\ Len(corbit.main_orbit) >= 2
       /\ Contains(corbit.main_orbit, corbit.objs[corbit.clone].orig)) =>
        /\ ~call'.err
        /\ call'.id = Neighbour(corbit.main_orbit, corbit.objs[corbit.clone].orig,
                                call'.path = "backwards") ]_vars


\* C32 (as claimed): in the first Orbit class the highlight scheduled by _bringToFront is
\* applied only to the entity that is focused when its timer fires, and an entity that has
\* been released from focus never carries a highlight child, for every interleaving of
\* setFocus calls and timer expiries.
C32_HighlightOnlyFocused ==
  [][ "deco" \in DOMAIN orbit =>
        /\ (call'.op = "timer" /\ call'.path = "highlight") =>
              (orbit'.deco[call'.id] > orbit.deco[call'.id] => orbit.focused = call'.id)
        /\ \A e \in Ents : orbit'.focused # e => orbit'.deco[e] = 0 ]_vars


\* C33 (as claimed): in the clone variant, whenever a duplicate is focused (this.clone is
\* non-null and a child of the Focus Ring) hidden_ents is non-empty and its last element
\* is the hidden original of that duplicate.
C33_FocusedIsLastHidden ==
  ("hidden_ents" \in DOMAIN corbit /\ corbit.clone # NULL
     /\ Contains(corbit.focus_orbit, corbit.clone)) =>
       /\ corbit.hidden_ents # << >>
       /\ corbit.hidden_ents[Len(corbit.hidden_ents)] = corbit.objs[corbit.clone].orig


\* C34 (as claimed): in the move variant every member of the Main Ring lies at horizontal
\* distance exactly radius from the centre, also after an entity was focused and has
\* returned, whether the exit came after the entry completed or while it was in flight.
C34_MainRingAtRadius ==
  "pos" \in DOMAIN orbit => \A e \in Ents : InMain(e) => orbit.pos[e].rad = radius


\* Orbit.getIDs(): the identifiers of the Main Ring children, in children order
GetIDs(o) == [i \in DOMAIN o.main_orbit |-> o.main_orbit[i]]

\* the ring as main() builds it, before anything was focused
BuiltRing == AddAll(NewOrbit, NumEnts)

\* C35 (as claimed): focusing an entity and releasing it is a round trip for the ring
\* layout: once the exit animations have completed and every entity is back in the Main
\* Ring, each entity has the local angular position it had before it was focused, no two
\* entities share an angular position (the uniform spacing is kept), and getIDs returns
\* the order it returned before.
C35_LayoutRoundTrip ==
  ("pos" \in DOMAIN orbit /\ \A e \in Ents : InMain(e)) =>
     /\ \A e \in Ents : orbit.pos[e].ang = BuiltRing.pos[e].ang
     /\ \A a, b \in Ents : a # b => orbit.pos[a].ang # orbit.pos[b].ang
     /\ GetIDs(orbit) = GetIDs(BuiltRing)


\* C36 (as claimed): with detail mode, in every state reached by menu selections, clicks,
\* clicks on the detail return control and animation completions, the focused entity
\* carries at most one highlight mesh and one read-more button, and addHighlight is never
\* called with no focused entity.
C36_SingleHighlight ==
  "deco" \in DOMAIN orbit =>
     /\ \A e \in Ents : orbit.deco[e] <= 1
     /\ ~(call.op = "exitDetail" /\ call.prev = NULL)


\* C37 (as claimed): once exploration mode has been entered the navigation menu is
\* disabled only while detail mode is showing: whenever exitDetailMode has run after the
\* last enterDetailMode, the menu is enabled again.
C37_MenuEnabledOutsideDetail ==
  /\ (ui.explored /\ ui.info_block = 0) => ui.swiper
  /\ call.op = "exitDetail" => ui.swiper


\* ---- CardMesh of the first version of src/js/main.js: the frame-stepped drift ----
\* orbit is one card: y is position.y - orgPosY, arg_max_speed the max_speed argument of
\* the constructor, max_speed the field (the argument times Math.random())

Abs(x) == IF x < 0 THEN 0 - x ELSE x

\* _changeDirection(chance) when Math.random() < chance came out as change
ChangeDirection(c, change) == IF change THEN [c EXCEPT !.acceleration = 0 - @] ELSE c

\* CardMesh.update(), with change the outcome of the random direction switch
CardUpdate(c, change) ==
  LET c1 == IF Abs(c.y) > c.allowed_deviation
            THEN [c EXCEPT !.y = @ - c.speed, !.speed = 0]
            ELSE [c EXCEPT !.y = @ + c.speed]
      c2 == ChangeDirection(c1, change)
  IN IF Abs(c2.speed) > c2.max_speed
     THEN [c2 EXCEPT !.speed = c2.max_speed * (IF c2.speed < 0 THEN 0 - 1 ELSE 1)]
     ELSE [c2 EXCEPT !.speed = @ + c2.acceleration]

\* Orbit.update calls child.update() once per frame
CardFrame(change) ==
  /\ ncalls < MaxUpdates
  /\ orbit' = CardUpdate(orbit, change)
  /\ ncalls' = ncalls + 1
  /\ call' = [op |-> "update", id |-> NULL, prev |-> NULL,
              path |-> IF change THEN "change" ELSE "keep", playing |-> FALSE,
              err |-> FALSE, parent |-> NULL]
  /\ UNCHANGED <<tweens, ui, cvars>>

\* new CardMesh(geometry, material, max_speed, allowed_deviation, acceleration): the
\* constructor ends with _changeDirection(0.5)
InitCard ==
  /\ \E ms \in 0..MaxSpeed, m \in 0..MaxSpeed, dev \in 0..MaxDev, acc \in 0..MaxAcc,
        change \in BOOLEAN :
        /\ m <= ms
        /\ orbit = ChangeDirection([y |-> 0, speed |-> 0, acceleration |-> acc,
                                    max_speed |-> m, arg_max_speed |-> ms,
                                    allowed_deviation |-> dev], change)
  /\ tweens = << >> /\ ui = NULL
  /\ corbit = NULL /\ ctweens = << >> /\ timers = << >> /\ clock = 0
  /\ ncalls = 0
  /\ call = [op |-> "init", id |-> NULL, prev |-> NULL, path |-> "init", playing |-> FALSE,
             err |-> FALSE, parent |-> NULL]

NextCard == \E change \in BOOLEAN : CardFrame(change)

SpecCard == InitCard /\ [][NextCard]_vars

\* C38 (as claimed): for every sequence of update calls and every outcome of the random
\* direction changes, |position.y - orgPosY| never exceeds allowed_deviation by more than
\* one step (max_speed + |acceleration|), |speed| never exceeds max_speed +
\* |acceleration|, and with allowed_deviation = 0 position.y never leaves orgPosY.
C38_DriftBounded ==
  /\ Abs(orbit.y) <= orbit.allowed_deviation + orbit.arg_max_speed + Abs(orbit.acceleration)
  /\ Abs(orbit.speed) <= orbit.arg_max_speed + Abs(orbit.acceleration)
  /\ orbit.allowed_deviation = 0 => orbit.y = 0

====
